---- MODULE Spec2Model ----
(***************************************************************************)
(* Model of the "Species Project" add-on (src/final.py): the population of *)
(* scene objects with their generation indices, selection flags, shape-key *)
(* names and grid locations, the operators Flatten, TidyUp, Retain,        *)
(* Randomize and Mix, the property update hooks, and the two genome        *)
(* mixing functions.                                                       *)
(*                                                                         *)
(* Two specifications share the module, one per kind of data the add-on   *)
(* writes.  Spec is the scene: the objects in scene order with their       *)
(* generation index, location and select flag, on which every operator     *)
(* acts as its execute() does.  The mesh data (shape keys, material) is    *)
(* left out of the scene state: no operator reads it to decide anything    *)
(* about generation indices, membership, selection or locations.           *)
(* SpecGenome is the mesh data of one couple: the values Randomize writes  *)
(* and the values mix_scalar_genome and mix_vector_genome return for them, *)
(* with every random draw an input.  SpecCapacity is the grid TidyUp lays   *)
(* one generation out on: the capacity make_2d_capacity_from_1d returns    *)
(* for a group size and the cell each index of the group gets.             *)
(*                                                                         *)
(* An object is named by its position in context.scene.objects; a new      *)
(* object is linked at the end and removing objects closes the gaps.       *)
(*                                                                         *)
(* Numbers.  Locations are kept as <<2x, 2y, z>> in units of the grid      *)
(* spacing, so that (w-1)/2 stays an integer.  Genome values are integers  *)
(* in units of 1/ValueDen; an interpolation factor is TNum/TDen, so mixed  *)
(* values are in "fine" units of 1/(ValueDen*TDen) and the arithmetic is   *)
(* exact (floating-point rounding is not modelled).                        *)
(***************************************************************************)
EXTENDS Integers, Sequences, FiniteSets, TLC

\* ------------------------------------------------------------------ bounds
MaxObjects == 5        \* objects the scene may hold (Mix is capped by it)
InitialObjects == 3    \* untouched objects the scene starts with
MaxGen == 2            \* largest generation index reached or entered
MaxChildren == 1       \* largest value of each children-per-couple property
MaxSteps == 6          \* user actions in one run of the scene

VARIABLES
    generation_index,  \* ob.specie.generation_index, per object of the scene
    location,          \* ob.location as <<2x, 2y, z>>, per object
    select,            \* ob.select, per object
    grid_spacing,      \* scene.species.grid_spacing
    num_children_per_couple_using_shrinkwrap,
    num_children_per_couple_without_shrinkwrap,
    engaged,           \* history: the object was produced by Mix or adopted
    released,          \* history: an override or edit last set its index to -1
    last,              \* history: the last command, its report and offspring
    steps,             \* history: number of user actions so far
    genome,            \* the couple of SpecGenome (constant under Spec)
    capacity           \* the grid of SpecCapacity (constant under Spec)

vars == <<generation_index, location, select, grid_spacing,
          num_children_per_couple_using_shrinkwrap,
          num_children_per_couple_without_shrinkwrap,
          engaged, released, last, steps, genome, capacity>>

\* ------------------------------------------------------------ small helpers
Range(s) == {s[i] : i \in 1..Len(s)}

MaxOf(S) == CHOOSE x \in S : \A y \in S : y <= x

MinOf(S) == CHOOSE x \in S : \A y \in S : x <= y

\* the items of sequence s that are in keep, in order
RECURSIVE Filter(_, _)
Filter(s, keep) ==
    IF s = <<>> THEN <<>>
    ELSE IF Head(s) \in keep THEN <<Head(s)>> \o Filter(Tail(s), keep)
    ELSE Filter(Tail(s), keep)

\* the sequence f restricted to the positions listed in ks
Pick(f, ks) == [j \in 1..Len(ks) |-> f[ks[j]]]

\* context.scene.objects, for a scene whose indices are gen
SceneObjects(gen) == [i \in 1..Len(gen) |-> i]

objects == SceneObjects(generation_index)

\* context.selected_objects: the scene's objects whose select flag is set
selected_objects == Filter(objects, {o \in Range(objects) : select[o]})

\* [ob for ob in context.scene.objects if ob.specie.generation_index >= 0]
TouchedOf(gen) == Filter(SceneObjects(gen), {o \in 1..Len(gen) : gen[o] >= 0})

\* ------------------------------------------------------- utility functions
CeilDiv(a, b) == (a + b - 1) \div b

\* math.ceil(math.sqrt(count))
CeilSqrt(count) == MinOf({w \in 0..count : w * w >= count})

\* faulty variant of make_2d_capacity_from_1d: the height is rounded down
make_2d_capacity_rounded_down(count) ==
    LET w == CeilSqrt(count)
        h == count \div w
    IN  <<w, h>>

\* make_2d_capacity_from_1d(count), for count >= 1: <<w, h>>
make_2d_capacity_from_1d(count) ==
    LET w == CeilSqrt(count)
        h == CeilDiv(count, w)
    IN  <<w, h>>

\* ------------------------------------------------------------------ TidyUp
\* 0-based position of o in sequence s
IndexIn(s, o) == (CHOOSE i \in 1..Len(s) : s[i] = o) - 1

\* generations[g]: the touched objects of one generation, in scene order
GenerationGroup(gen, g) == Filter(SceneObjects(gen), {o \in 1..Len(gen) : gen[o] = g})

\* faulty variant of TidyLocationOf: the row is taken from the column
TidyLocationOfColumnTwice(gen, spacing, o) ==
    LET obs    == TouchedOf(gen)
        lowest_generation_index == MinOf({gen[x] : x \in Range(obs)})
        group  == GenerationGroup(gen, gen[o])
        cap    == make_2d_capacity_from_1d(Len(group))
        w      == cap[1]
        h      == cap[2]
        i      == IndexIn(group, o)
    IN  << spacing[1] * (2 * (i % w) - (w - 1)),
           spacing[2] * (2 * (i % w) - (h - 1)),
           (gen[o] - lowest_generation_index) * spacing[3] >>

\* The location TidyUp gives touched object o.
TidyLocationOf(gen, spacing, o) ==
    LET obs    == TouchedOf(gen)
        lowest_generation_index == MinOf({gen[x] : x \in Range(obs)})
        group  == GenerationGroup(gen, gen[o])
        cap    == make_2d_capacity_from_1d(Len(group))
        w      == cap[1]
        h      == cap[2]
        i      == IndexIn(group, o)
    IN  << spacing[1] * (2 * (i % w) - (w - 1)),
           spacing[2] * (2 * (i \div w) - (h - 1)),
           (gen[o] - lowest_generation_index) * spacing[3] >>

\* faulty variant of TidyUpLocations: each coordinate is added to, not assigned
TidyUpLocationsAdded(gen, loc, spacing) ==
    [o \in 1..Len(gen) |->
        IF gen[o] >= 0
        THEN [i \in 1..3 |-> loc[o][i] + TidyLocationOf(gen, spacing, o)[i]]
        ELSE loc[o]]

\* TidyUpSpecies.execute as a function of the scene: the new locations.
\* With no touched object it reports a warning and moves nothing.
TidyUpLocations(gen, loc, spacing) ==
    [o \in 1..Len(gen) |->
        IF gen[o] >= 0 THEN TidyLocationOf(gen, spacing, o) ELSE loc[o]]

\* ----------------------------------------------------------------- Flatten
\* faulty variant of FlattenIndices: the lowest index instead of the highest
FlattenIndicesLowest(gen) ==
    LET obs == TouchedOf(gen)
    IN  IF obs = <<>> THEN gen
        ELSE LET lowest == MinOf({gen[o] : o \in Range(obs)})
             IN  [o \in 1..Len(gen) |-> IF gen[o] >= 0 THEN lowest ELSE gen[o]]

\* FlattenSpecies.execute on the generation indices
FlattenIndices(gen) ==
    LET obs == TouchedOf(gen)
    IN  IF obs = <<>> THEN gen
        ELSE LET highest_generation_index == MaxOf({gen[o] : o \in Range(obs)})
             IN  [o \in 1..Len(gen) |->
                    IF gen[o] >= 0 THEN highest_generation_index ELSE gen[o]]

\* ------------------------------------------------------------------ Retain
\* faulty variant of RetainRemoved: the generation index is not looked at
RetainRemovedUnselected(gen, sel) == {o \in 1..Len(gen) : ~sel[o]}

\* the objects RetainSpecies.execute removes
RetainRemoved(gen, sel) == {o \in 1..Len(gen) : gen[o] >= 0 /\ ~sel[o]}

\* --------------------------------------------------------------------- Mix
\* faulty variant of MixDefaultGeneration: without the max(0, ...)
MixDefaultGenerationNoFloor(gen) == MaxOf({gen[o] : o \in 1..Len(gen)})

\* highest_generation_index of MixSpecies.execute (line 237)
MixDefaultGeneration(gen) ==
    LET m == MaxOf({gen[o] : o \in 1..Len(gen)})
    IN  IF m > 0 THEN m ELSE 0

\* faulty variant of MixAdopt: the loop runs over the scene, not over the selection
MixAdoptEveryObject(obs, gen) ==
    LET highest_generation_index == MixDefaultGeneration(gen)
    IN  [o \in 1..Len(gen) |-> IF gen[o] < 0 THEN highest_generation_index ELSE gen[o]]

\* the adoption loop of MixSpecies.execute (lines 239-241)
MixAdopt(obs, gen) ==
    LET highest_generation_index == MixDefaultGeneration(gen)
    IN  [o \in 1..Len(gen) |->
            IF o \in Range(obs) /\ gen[o] < 0 THEN highest_generation_index ELSE gen[o]]

\* faulty variant of Couples: disjoint pairs, range(0, len(obs)-1, 2)
CouplesDisjoint(obs) == [i \in 1..(Len(obs) \div 2) |-> <<obs[2 * i - 1], obs[2 * i]>>]

\* couples = [(obs[i], obs[i+1]) for i in range(0, len(obs)-1, 1)]
Couples(obs) == [i \in 1..(Len(obs) - 1) |-> <<obs[i], obs[i + 1]>>]

\* faulty variant of NextGen: the mom's index alone
NextGenFromMom(gen, mom, dad) == 1 + gen[mom]

\* next_gen = 1 + max(mom.generation_index, dad.generation_index)
NextGen(gen, mom, dad) == 1 + (IF gen[mom] >= gen[dad] THEN gen[mom] ELSE gen[dad])

\* duplicate_object: a copy of ob (custom properties, location) linked at the
\* end of the scene.  Whether the link leaves the copy selected is the host's
\* choice (linkSelects); a copy of an unselected object is not selected.
DuplicateObject(st, ob, linkSelects) ==
    [st EXCEPT !.gen = Append(@, st.gen[ob]),
               !.loc = Append(@, st.loc[ob]),
               !.sel = Append(@, linkSelects /\ st.sel[ob]),
               !.copied = ob]

\* add_shrinkwrap_shape_key on the scene: bpy.ops.object.select_all(action=
\* 'DESELECT'); the modifier and its shape key are mesh data
AddShrinkwrapShapeKey(st, ob, target) ==
    [st EXCEPT !.sel = [o \in 1..Len(@) |-> FALSE]]

\* One iteration of the inner loop (lines 251-277) for child number i of the
\* couple, on the scene.
BreedChild(st, mom, dad, i, ns, linkSelects) ==
    LET next_gen == NextGen(st.gen, mom, dad)
        s1 == DuplicateObject(st, mom, linkSelects)
        c  == Len(s1.gen)
        s2 == [s1 EXCEPT !.gen = [@ EXCEPT ![c] = next_gen]]
        s3 == IF i < ns
              THEN AddShrinkwrapShapeKey(
                       [s2 EXCEPT !.loc = [@ EXCEPT ![c] = s2.loc[dad]]], c, dad)
              ELSE s2
    IN  [s3 EXCEPT !.born = Append(@, [child |-> c, source |-> s1.copied,
                                       mom |-> mom, dad |-> dad, i |-> i])]

\* The two nested loops of lines 245-277: job j is child (j-1) % total of
\* couple (j-1) \div total + 1.
RECURSIVE Breed(_, _, _, _, _, _)
Breed(st, couples, total, ns, linkSelects, j) ==
    IF j > Len(couples) * total THEN st
    ELSE LET cp == couples[((j - 1) \div total) + 1]
             i  == (j - 1) % total
         IN  Breed(BreedChild(st, cp[1], cp[2], i, ns, linkSelects),
                   couples, total, ns, linkSelects, j + 1)

\* ------------------------------------------------------------ the commands
\* grid spacings the user enters (the property's default is (0, 0, 0); it has
\* no minimum, so a component may be negative)
GridSpacingChoices == {<<0, 0, 0>>, <<2, 1, 1>>, <<-1, 2, -1>>}

GenerationChoices == (-1)..MaxGen

\* a command that bred nothing; host actions carry no name
NoReport == ""

\* changed: the objects whose index the command changed (kept for Mix, the
\* objects it adopted, and for Flatten); repeat: the command before this one
\* was the same command
Command(name, report) ==
    [name |-> name, report |-> report, obs |-> <<>>, born |-> <<>>, before |-> 0,
     changed |-> {}, repeat |-> (name # "" /\ last.name = name)]

\* record of a Mix that bred: the selection it read, the objects it adopted,
\* its offspring, and the number of objects before it
MixCommand(obs, adopted, born, before) ==
    [Command("Mix", NoReport) EXCEPT !.obs = obs, !.changed = adopted,
                                     !.born = born, !.before = before]

PopInit ==
    /\ generation_index = [o \in 1..InitialObjects |-> -1]
    /\ location = [o \in 1..InitialObjects |-> <<0, 0, 0>>]
    /\ select = [o \in 1..InitialObjects |-> FALSE]
    /\ grid_spacing = <<0, 0, 0>>
    /\ num_children_per_couple_using_shrinkwrap = 0
    /\ num_children_per_couple_without_shrinkwrap = 0
    /\ engaged = [o \in 1..InitialObjects |-> FALSE]
    /\ released = [o \in 1..InitialObjects |-> FALSE]
    /\ last = [name |-> "", report |-> NoReport, obs |-> <<>>, born |-> <<>>,
               before |-> 0, changed |-> {}, repeat |-> FALSE]
    /\ steps = 0

\* The user selects or deselects one object in the viewport.
ToggleSelect(o) ==
    /\ o \in Range(objects)
    /\ select' = [select EXCEPT ![o] = ~@]
    /\ last' = Command("", NoReport)
    /\ UNCHANGED <<generation_index, location, grid_spacing,
                   num_children_per_couple_using_shrinkwrap,
                   num_children_per_couple_without_shrinkwrap, engaged, released, genome, capacity>>

\* grid_spacing is set: its update hook is call_tidy_up
SetGridSpacing(v) ==
    /\ grid_spacing' = v
    /\ location' = TidyUpLocations(generation_index, location, v)
    /\ last' = Command("", NoReport)
    /\ UNCHANGED <<generation_index, select,
                   num_children_per_couple_using_shrinkwrap,
                   num_children_per_couple_without_shrinkwrap, engaged, released, genome, capacity>>

SetNumUsingShrinkwrap(n) ==
    /\ num_children_per_couple_using_shrinkwrap' = n
    /\ last' = Command("", NoReport)
    /\ UNCHANGED <<generation_index, location, select, grid_spacing,
                   num_children_per_couple_without_shrinkwrap, engaged, released, genome, capacity>>

SetNumWithoutShrinkwrap(n) ==
    /\ num_children_per_couple_without_shrinkwrap' = n
    /\ last' = Command("", NoReport)
    /\ UNCHANGED <<generation_index, location, select, grid_spacing,
                   num_children_per_couple_using_shrinkwrap, engaged, released, genome, capacity>>

\* the indices override_generation_index_for_selected_objects assigns
OverrideIndices(gen, sel, v) == [o \in 1..Len(gen) |-> IF sel[o] THEN v ELSE gen[o]]

\* generation_index_override is set to v: its update hook assigns v to every
\* selected object and calls TidyUp
OverrideGenerationIndex(v) ==
    LET gen == OverrideIndices(generation_index, select, v)
    IN  /\ generation_index' = gen
        /\ location' = TidyUpLocations(gen, location, grid_spacing)
        /\ engaged' = [o \in 1..Len(gen) |-> engaged[o] \/ (select[o] /\ v >= 0)]
        /\ released' = [o \in 1..Len(gen) |-> IF select[o] THEN v < 0 ELSE released[o]]
        /\ last' = Command("Override", NoReport)
        /\ UNCHANGED <<select, grid_spacing,
                       num_children_per_couple_using_shrinkwrap,
                       num_children_per_couple_without_shrinkwrap, genome, capacity>>

\* the index the per-object property edit assigns (the property has no update hook)
EditIndices(gen, o, v) == [gen EXCEPT ![o] = v]

\* The panel shows the generation_index property of the active object o when
\* exactly one object is selected; editing it calls nothing else.
EditGenerationIndex(o, v) ==
    /\ Len(selected_objects) = 1
    /\ o \in Range(objects)
    /\ generation_index' = EditIndices(generation_index, o, v)
    /\ engaged' = [engaged EXCEPT ![o] = @ \/ v >= 0]
    /\ released' = [released EXCEPT ![o] = v < 0]
    /\ last' = Command("Edit", NoReport)
    /\ UNCHANGED <<location, select, grid_spacing,
                   num_children_per_couple_using_shrinkwrap,
                   num_children_per_couple_without_shrinkwrap, genome, capacity>>

FlattenSpecies ==
    LET obs == TouchedOf(generation_index)
        gen == FlattenIndices(generation_index)
    IN  /\ generation_index' = gen
        /\ location' = IF obs = <<>> THEN location
                       ELSE TidyUpLocations(gen, location, grid_spacing)
        /\ last' = [Command("Flatten", IF obs = <<>> THEN "WARNING" ELSE NoReport)
                        EXCEPT !.changed = {o \in Range(objects) : gen[o] # generation_index[o]}]
        /\ UNCHANGED <<select, grid_spacing,
                       num_children_per_couple_using_shrinkwrap,
                       num_children_per_couple_without_shrinkwrap, engaged, released, genome, capacity>>

TidyUpSpecies ==
    /\ location' = TidyUpLocations(generation_index, location, grid_spacing)
    /\ last' = Command("TidyUp", IF TouchedOf(generation_index) = <<>> THEN "WARNING" ELSE NoReport)
    /\ UNCHANGED <<generation_index, select, grid_spacing,
                   num_children_per_couple_using_shrinkwrap,
                   num_children_per_couple_without_shrinkwrap, engaged, released, genome, capacity>>

RetainSpecies ==
    LET gone == RetainRemoved(generation_index, select)
        kept == Filter(objects, Range(objects) \ gone)
        gen  == Pick(generation_index, kept)
    IN  /\ generation_index' = gen
        /\ location' = TidyUpLocations(gen, Pick(location, kept), grid_spacing)
        /\ select' = Pick(select, kept)
        /\ engaged' = Pick(engaged, kept)
        /\ released' = Pick(released, kept)
        /\ last' = [Command("Retain", NoReport) EXCEPT !.obs = kept, !.before = Len(objects)]
        /\ UNCHANGED <<grid_spacing, num_children_per_couple_using_shrinkwrap,
                       num_children_per_couple_without_shrinkwrap, genome, capacity>>

\* RandomizeSpecies.execute on the scene: it reports an error with nothing
\* selected and otherwise writes shape-key values only (RandomizeShapeKeys).
RandomizeSpecies ==
    /\ last' = Command("Randomize", IF selected_objects = <<>> THEN "ERROR" ELSE NoReport)
    /\ UNCHANGED <<generation_index, location, select, grid_spacing,
                   num_children_per_couple_using_shrinkwrap,
                   num_children_per_couple_without_shrinkwrap, engaged, released, genome, capacity>>

\* faulty variant of MixReport: without the guard on the number of children
MixReportNoChildrenGuard(obs, total) ==
    IF obs = <<>> THEN "WARNING"
    ELSE IF Len(obs) < 2 THEN "WARNING"
    ELSE NoReport

\* the guards of MixSpecies.execute (lines 221-235): the report, "" when Mix breeds
MixReport(obs, total) ==
    IF obs = <<>> THEN "WARNING"
    ELSE IF Len(obs) < 2 THEN "WARNING"
    ELSE IF total <= 0 THEN "WARNING"
    ELSE NoReport

\* the scene after the adoption and the breeding loops of MixSpecies.execute
MixBreed(obs, total, ns, linkSelects) ==
    Breed([gen  |-> MixAdopt(obs, generation_index),
           loc  |-> location,
           sel  |-> select,
           copied |-> 0,
           born |-> <<>>],
          Couples(obs), total, ns, linkSelects, 1)

MixSpecies(linkSelects) ==
    LET obs   == selected_objects
        ns    == num_children_per_couple_using_shrinkwrap
        total == ns + num_children_per_couple_without_shrinkwrap
    IN  IF MixReport(obs, total) # NoReport
        THEN /\ last' = Command("Mix", MixReport(obs, total))
             /\ UNCHANGED <<generation_index, location, select,
                            grid_spacing, num_children_per_couple_using_shrinkwrap,
                            num_children_per_couple_without_shrinkwrap,
                            engaged, released, genome, capacity>>
        ELSE \* the model's caps on the scene's size and on the indices
             /\ Len(objects) + (Len(obs) - 1) * total <= MaxObjects
             /\ MixDefaultGeneration(generation_index) + 1 <= MaxGen
             /\ LET st == MixBreed(obs, total, ns, linkSelects)
                    n  == Len(objects)
                IN  /\ generation_index' = st.gen
                    /\ location' = TidyUpLocations(st.gen, st.loc, grid_spacing)
                    /\ select' = st.sel
                    /\ engaged' = [o \in 1..Len(st.gen) |->
                                     IF o > n \/ o \in Range(obs) THEN TRUE ELSE engaged[o]]
                    /\ released' = [o \in 1..Len(st.gen) |->
                                     IF o > n \/ o \in Range(obs) THEN FALSE ELSE released[o]]
                    /\ last' = MixCommand(obs,
                                          {o \in Range(obs) : generation_index[o] < 0},
                                          st.born, n)
             /\ UNCHANGED <<grid_spacing, num_children_per_couple_using_shrinkwrap,
                            num_children_per_couple_without_shrinkwrap, genome, capacity>>

\* ------------------------------------------------------------- the genome
ValueDen == 2          \* a shape-key value or colour component v stands for v/ValueDen
MaxValue == 2          \* largest value, slider bound or colour component
TDen == 2              \* an interpolation draw t stands for t/TDen, 0 <= t < TDen
PDen == 2              \* a probability p (or coin draw) stands for p/PDen
MaxDelta == 4          \* largest mutation draw, in fine units

Values == 0..MaxValue

\* random.random(): a draw in [0, 1)
UnitDraws == 0..(ValueDen - 1)

TDraws == 0..(TDen - 1)

CoinDraws == 0..(PDen - 1)

\* random.normal(scale = mutation_normal_distribution_scale), in fine units
DeltaDraws == {-MaxDelta, -1, 0, 1, MaxDelta}

\* fine units of a value
Fine(v) == v * TDen

\* lerp(start, end, t) = start * (1 - t) + end * t, in fine units
lerp(start, end, t) == start * (TDen - t) + end * t

\* numpy.clip(x, lo, hi) = minimum(maximum(x, lo), hi)
Clip(x, lo, hi) ==
    LET m == IF x >= lo THEN x ELSE lo
    IN  IF m <= hi THEN m ELSE hi

\* SpeciesScene.mix_scalar_genome(a, b, minn, maxn) with mutation_probability
\* prob and the draws t (line 111), coin (line 112) and delta (line 113)
mix_scalar_genome(a, b, minn, maxn, prob, t, coin, delta) ==
    LET mixed == lerp(a, b, t)
    IN  IF coin <= prob
        THEN Clip(mixed + delta, Fine(minn), Fine(maxn))
        ELSE mixed

\* Vector.lerp(a, b, t): one t for the three components
VectorLerp(a, b, t) == [i \in 1..3 |-> lerp(a[i], b[i], t)]

\* SpeciesScene.mix_vector_genome(a, b, minn, maxn) with the draws t (line 118),
\* coin (line 119) and one delta per component (lines 120-121)
mix_vector_genome(a, b, minn, maxn, prob, t, coin, delta) ==
    LET mixed == VectorLerp(a, b, t)
    IN  IF coin <= prob
        THEN [i \in 1..3 |-> Clip(mixed[i] + delta[i], Fine(minn[i]), Fine(maxn[i]))]
        ELSE mixed

\* the diffuse colours of a couple's materials
ColorChoices == {<<0, 1, 2>>, <<2, 2, 0>>}

\* mutation draws of the three components
VectorDeltaDraws == {<<x, y, z>> : x \in {-MaxDelta, 0, MaxDelta},
                                   y \in {-1, 0}, z \in {0, MaxDelta}}

NoCall == [fn |-> "none", t |-> 0, coin |-> 0, delta |-> <<0>>, mixed |-> <<0>>]

GenomeIdle ==
    [mutation_probability |-> 0, a |-> 0, b |-> 0, slider_min |-> 0, slider_max |-> 0,
     mom_color |-> <<0, 0, 0>>, dad_color |-> <<0, 0, 0>>, call |-> NoCall]

\* One shape key the couple shares, with both values inside the slider range,
\* the couple's diffuse colours, and the mutation probability.
GenomeInit ==
    \E prob \in 0..PDen, lo \in Values, hi \in Values, a \in Values, b \in Values,
       mc \in ColorChoices, dc \in ColorChoices :
        /\ lo <= hi /\ lo <= a /\ a <= hi /\ lo <= b /\ b <= hi
        /\ genome = [mutation_probability |-> prob, a |-> a, b |-> b,
                     slider_min |-> lo, slider_max |-> hi,
                     mom_color |-> mc, dad_color |-> dc, call |-> NoCall]

\* RandomizeSpecies.execute on the mesh data (lines 206-208): the shape key of
\* both selected parents gets its own draw of random.random()
RandomizeShapeKeys(ra, rb) ==
    /\ genome' = [genome EXCEPT !.a = ra, !.b = rb,
                                !.call = [NoCall EXCEPT !.fn = "randomize"]]

\* the value a child's shape key gets (lines 275-277)
MixShapeKey(t, coin, delta) ==
    /\ genome' = [genome EXCEPT !.call =
          [fn |-> "mix_scalar_genome", t |-> t, coin |-> coin, delta |-> <<delta>>,
           mixed |-> <<mix_scalar_genome(genome.a, genome.b,
                                         genome.slider_min, genome.slider_max,
                                         genome.mutation_probability, t, coin, delta)>>]]

\* the diffuse colour a child's material gets (lines 264-272), with the
\* bounds (0, 0, 0) and (1, 1, 1)
MixMaterial(t, coin, delta) ==
    /\ genome' = [genome EXCEPT !.call =
          [fn |-> "mix_vector_genome", t |-> t, coin |-> coin, delta |-> delta,
           mixed |-> mix_vector_genome(genome.mom_color, genome.dad_color,
                                       <<0, 0, 0>>, <<ValueDen, ValueDen, ValueDen>>,
                                       genome.mutation_probability, t, coin, delta)]]

\* no group laid out yet
CapacityIdle ==
    [count |-> 0, w |-> 0, h |-> 0, asserted |-> TRUE,
     placed |-> FALSE, i |-> 0, cell |-> <<0, 0>>]

sceneVars == <<generation_index, location, select, grid_spacing,
               num_children_per_couple_using_shrinkwrap,
               num_children_per_couple_without_shrinkwrap,
               engaged, released, last, steps>>

InitGenome ==
    /\ PopInit
    /\ GenomeInit
    /\ capacity = CapacityIdle

NextGenome ==
    \/ \E ra \in UnitDraws, rb \in UnitDraws :
          RandomizeShapeKeys(ra, rb) /\ UNCHANGED <<sceneVars, capacity>>
    \/ \E t \in TDraws, coin \in CoinDraws, delta \in DeltaDraws :
          MixShapeKey(t, coin, delta) /\ UNCHANGED <<sceneVars, capacity>>
    \/ \E t \in TDraws, coin \in CoinDraws, delta \in VectorDeltaDraws :
          MixMaterial(t, coin, delta) /\ UNCHANGED <<sceneVars, capacity>>

SpecGenome == InitGenome /\ [][NextGenome]_vars

\* ---------------------------------------------------------------- the grid
MaxCount == 16         \* largest generation group laid out in SpecCapacity

\* the assertion of make_2d_capacity_from_1d (line 45)
CapacityAsserted(count, w, h) == w * h >= count

\* TidyUp calls make_2d_capacity_from_1d(len(obs)) for a generation of count
\* objects (line 174)
GroupCapacity(count) ==
    LET cap == make_2d_capacity_from_1d(count)
    IN  capacity' = [CapacityIdle EXCEPT !.count = count,
                                         !.w = cap[1], !.h = cap[2],
                                         !.asserted = CapacityAsserted(count, cap[1], cap[2])]

\* the column i % w and the row i // w of the i-th object of the group
\* (lines 175-177)
GridCell(i, w) == <<i % w, i \div w>>

\* one iteration of the loop over enumerate(obs)
PlaceInGrid(i) ==
    /\ capacity.count >= 1
    /\ capacity.asserted
    /\ i < capacity.count
    /\ capacity' = [capacity EXCEPT !.placed = TRUE, !.i = i,
                                    !.cell = GridCell(i, capacity.w)]

InitCapacity ==
    /\ PopInit
    /\ genome = GenomeIdle
    /\ capacity = CapacityIdle

NextCapacity ==
    \/ \E count \in 1..MaxCount :
          GroupCapacity(count) /\ UNCHANGED <<sceneVars, genome>>
    \/ \E i \in 0..(MaxCount - 1) :
          PlaceInGrid(i) /\ UNCHANGED <<sceneVars, genome>>

SpecCapacity == InitCapacity /\ [][NextCapacity]_vars

Init ==
    /\ PopInit
    /\ genome = GenomeIdle
    /\ capacity = CapacityIdle

\* one more user action, within the run's bound
Step == steps < MaxSteps /\ steps' = steps + 1

Next ==
    \/ \E o \in 1..MaxObjects : Step /\ ToggleSelect(o)
    \/ \E v \in GridSpacingChoices : Step /\ SetGridSpacing(v)
    \/ \E n \in 0..MaxChildren : Step /\ SetNumUsingShrinkwrap(n)
    \/ \E n \in 0..MaxChildren : Step /\ SetNumWithoutShrinkwrap(n)
    \/ \E v \in GenerationChoices : Step /\ OverrideGenerationIndex(v)
    \/ \E o \in 1..MaxObjects, v \in GenerationChoices : Step /\ EditGenerationIndex(o, v)
    \/ Step /\ FlattenSpecies
    \/ Step /\ TidyUpSpecies
    \/ Step /\ RetainSpecies
    \/ Step /\ RandomizeSpecies
    \/ \E linkSelects \in BOOLEAN : Step /\ MixSpecies(linkSelects)

Spec == Init /\ [][Next]_vars

\* =================================================================== claims
Max2(x, y) == IF x >= y THEN x ELSE y

Min2(x, y) == IF x <= y THEN x ELSE y

\* a user action has just been taken, and it was the command called name
Did(name) == steps' = steps + 1 /\ last'.name = name

\* C1: the value mix_scalar_genome returns lies in [min, max] and every
\* component of the value mix_vector_genome returns lies in its box, for all
\* parent values and all draws, whether or not the mutation branch is taken
\* and also when a parent's value is outside [min, max].
C1_MixedWithinBounds ==
    /\ genome.call.fn = "mix_scalar_genome" =>
          /\ Fine(genome.slider_min) <= genome.call.mixed[1]
          /\ genome.call.mixed[1] <= Fine(genome.slider_max)
    /\ genome.call.fn = "mix_vector_genome" =>
          \A i \in 1..3 : /\ 0 <= genome.call.mixed[i]
                          /\ genome.call.mixed[i] <= Fine(ValueDen)

\* C8: with mutation_probability = 0 the value mix_scalar_genome returns lies
\* between the two parents' values inclusive, for every draw, the coin draw
\* 0 included.
C8_NoMutationStaysBetweenParents ==
    (genome.call.fn = "mix_scalar_genome" /\ genome.mutation_probability = 0) =>
        /\ Fine(Min2(genome.a, genome.b)) <= genome.call.mixed[1]
        /\ genome.call.mixed[1] <= Fine(Max2(genome.a, genome.b))

\* the children-per-couple total the last Mix read
TotalChildren ==
    num_children_per_couple_using_shrinkwrap + num_children_per_couple_without_shrinkwrap

Bred == last.name = "Mix" /\ last.report = NoReport

\* C2: at the end of a Mix every child's generation index is 1 + the larger of
\* its mom's and dad's indices (as they are after adoption), and so strictly
\* greater than both.
C2_ChildGeneration ==
    Bred => \A j \in 1..Len(last.born) :
        LET r == last.born[j]
        IN  /\ generation_index[r.child] =
                   1 + Max2(generation_index[r.mom], generation_index[r.dad])
            /\ generation_index[r.child] > generation_index[r.mom]
            /\ generation_index[r.child] > generation_index[r.dad]

\* a Mix bred from a couple of parents with different indices, one of them
\* adopted by this Mix
C2_Witness ==
    /\ Bred
    /\ \E j \in 1..Len(last.born) :
          LET r == last.born[j]
          IN  /\ generation_index[r.mom] # generation_index[r.dad]
              /\ (r.mom \in last.changed \/ r.dad \in last.changed)

\* C3: a Mix of k >= 2 selected objects forms the k-1 couples (selected[i],
\* selected[i+1]); each couple gets exactly the children-per-couple total of
\* children, each a duplicate of the couple's mom, and the scene grows by
\* exactly (k-1) * total objects.
C3_SlidingWindow ==
    Bred =>
        LET k == Len(last.obs)
            total == TotalChildren
        IN  /\ k >= 2
            /\ Len(last.born) = (k - 1) * total
            /\ Len(generation_index) = last.before + (k - 1) * total
            /\ \A j \in 1..Len(last.born) :
                  LET r == last.born[j]
                      c == ((j - 1) \div total) + 1
                  IN  /\ r.mom = last.obs[c]
                      /\ r.dad = last.obs[c + 1]
                      /\ r.source = last.obs[c]
                      /\ r.child = last.before + j
            /\ \A c \in 1..(k - 1) :
                  Cardinality({j \in 1..Len(last.born) :
                                  /\ last.born[j].mom = last.obs[c]
                                  /\ last.born[j].dad = last.obs[c + 1]}) = total

\* a Mix of three selected objects: the middle one is dad of the first couple
\* and mom of the second
C3_Witness ==
    /\ Bred
    /\ Len(last.obs) = 3
    /\ \E i \in 1..Len(last.born), j \in 1..Len(last.born) :
          /\ last.born[i].dad = last.obs[2]
          /\ last.born[j].mom = last.obs[2]

sceneState == <<generation_index, location, select>>

\* C4: a Mix with fewer than two selected objects or with zero children per
\* couple, and a Flatten with no touched object, report a warning and leave
\* the scene as it was (no object created or removed, no index and no
\* location changed).
C4_GuardsLeaveSceneUnchanged ==
    [][ /\ (Did("Mix") /\ (Len(selected_objects) < 2 \/ TotalChildren = 0)) =>
              (last'.report = "WARNING" /\ sceneState' = sceneState)
        /\ (Did("Flatten") /\ \A o \in 1..Len(generation_index) : generation_index[o] < 0) =>
              (last'.report = "WARNING" /\ sceneState' = sceneState)
      ]_vars

\* a Mix stopped by the zero-children guard with two untouched objects selected
C4_Witness ==
    /\ last.name = "Mix"
    /\ last.report = "WARNING"
    /\ TotalChildren = 0
    /\ Len(selected_objects) >= 2
    /\ \A i \in 1..Len(selected_objects) : generation_index[selected_objects[i]] = -1

\* C5: Retain removes exactly the objects that are touched and not selected:
\* the objects left are, in order, the selected ones and the untouched ones,
\* with their indices and select flags; it reports nothing, also when it
\* removes nothing.
C5_RetainRemovesTouchedUnselected ==
    [][ Did("Retain") =>
          LET survivors == Filter(objects,
                                  {o \in Range(objects) :
                                      select[o] \/ generation_index[o] = -1})
          IN  /\ last'.report = NoReport
              /\ last'.obs = survivors
              /\ generation_index' = Pick(generation_index, survivors)
              /\ select' = Pick(select, survivors)
      ]_vars

\* a Retain that removed an object and left a selected touched object and an
\* unselected untouched one
C5_Witness ==
    /\ last.name = "Retain"
    /\ Len(last.obs) < last.before
    /\ \E o \in Range(objects) : generation_index[o] >= 0 /\ select[o]
    /\ \E o \in Range(objects) : generation_index[o] = -1 /\ ~select[o]

\* C6: Flatten is idempotent: a Flatten right after a Flatten changes no
\* index, no location and no membership.
C6_FlattenIdempotent ==
    [][ (Did("Flatten") /\ last.name = "Flatten") => sceneState' = sceneState ]_vars

\* a second Flatten in a row, of a scene with touched objects and a grid
\* spacing that is not zero
C6_Witness ==
    /\ last.name = "Flatten"
    /\ last.repeat
    /\ last.report = NoReport
    /\ grid_spacing # <<0, 0, 0>>
    /\ Cardinality({o \in Range(objects) : generation_index[o] >= 0}) >= 2

\* C7: with a touched object in the scene, Flatten sets the index of every
\* touched object to the highest index a touched object had, and leaves every
\* untouched object at -1; the touched objects then form one generation.
C7_FlattenToHighest ==
    [][ (Did("Flatten") /\ \E o \in Range(objects) : generation_index[o] >= 0) =>
          LET touched == {o \in Range(objects) : generation_index[o] >= 0}
              highest == MaxOf({generation_index[o] : o \in touched})
          IN  /\ Len(generation_index') = Len(generation_index)
              /\ \A o \in touched : generation_index'[o] = highest
              /\ \A o \in Range(objects) \ touched : generation_index'[o] = -1
              /\ Cardinality({generation_index'[o] : o \in touched}) = 1
      ]_vars

\* a Flatten that raised the index of one touched object to that of another
\* and left an untouched object alone
C7_Witness ==
    /\ last.name = "Flatten"
    /\ last.report = NoReport
    /\ last.changed # {}
    /\ \E o \in Range(objects) \ last.changed : generation_index[o] >= 1
    /\ \E o \in Range(objects) : generation_index[o] = -1

C10_MixAdoptsAtTop ==
    [][ (Did("Mix") /\ last'.report = NoReport) =>
          LET touched == {o \in Range(objects) : generation_index[o] >= 0}
              default == IF touched = {} THEN 0
                         ELSE Max2(0, MaxOf({generation_index[o] : o \in touched}))
          IN  \A o \in Range(objects) :
                 generation_index'[o] =
                     IF select[o] /\ generation_index[o] < 0 THEN default
                     ELSE generation_index[o]
      ]_vars

\* a Mix that adopted a selected object at a generation above 0 while another
\* selected object was touched already and an unselected one stayed untouched
C10_Witness ==
    /\ Bred
    /\ \E o \in last.changed : generation_index[o] >= 1
    /\ Range(last.obs) \ last.changed # {}
    /\ \E o \in 1..last.before : o \notin Range(last.obs) /\ generation_index[o] = -1

\* C11: for every group size n >= 1 make_2d_capacity_from_1d(n) returns
\* w = ceil(sqrt(n)), that is (w-1)^2 < n <= w^2, and h = ceil(n / w), that is
\* (h-1)*w < n <= h*w, with w*h >= n, so its assertion holds; n = 5 gives
\* (3, 2) and n = 4 gives (2, 2); and every index i in [0, n) gets the cell
\* (i mod w, i div w) with 0 <= i mod w < w and 0 <= i div w < h.
C11_CapacityHoldsGroup ==
    capacity.count >= 1 =>
        LET n == capacity.count
            w == capacity.w
            h == capacity.h
        IN  /\ w >= 1 /\ (w - 1) * (w - 1) < n /\ n <= w * w
            /\ h >= 1 /\ (h - 1) * w < n /\ n <= h * w
            /\ w * h >= n
            /\ capacity.asserted
            /\ (n = 5 => <<w, h>> = <<3, 2>>)
            /\ (n = 4 => <<w, h>> = <<2, 2>>)
            /\ capacity.placed =>
                  /\ capacity.i \in 0..(n - 1)
                  /\ 0 <= capacity.cell[1] /\ capacity.cell[1] < w
                  /\ 0 <= capacity.cell[2] /\ capacity.cell[2] < h
                  /\ capacity.cell[2] * w + capacity.cell[1] = capacity.i

\* the last object of a group of five has been given its cell, in the second
\* row of a grid that has one cell to spare
C11_Witness ==
    /\ capacity.count = 5
    /\ capacity.placed
    /\ capacity.i = 4
    /\ capacity.cell = <<1, 1>>
    /\ capacity.w * capacity.h > capacity.count

\* the commands that change the scene's membership or a generation index
ChangingCommands == {"Mix", "Flatten", "Retain", "Override", "Edit"}

\* a layout pass over the scene as it is would move no object
LaidOut(gen, loc, spacing) == TidyUpLocations(gen, loc, spacing) = loc

\* C12: after every command that changed the membership of the scene or a
\* generation index (Mix, Flatten, Retain, the override for the selection and
\* the edit of one object's index), every touched object is where a layout
\* pass puts it for the scene as it now is: a TidyUp right after the command
\* would change no location.
C12_LaidOutAfterEveryChange ==
    [][ (/\ steps' = steps + 1
         /\ last'.name \in ChangingCommands
         /\ generation_index' # generation_index) =>
            LaidOut(generation_index', location', grid_spacing')
      ]_vars

\* a user action has just run a layout pass over a scene with touched objects
TidyUpRan ==
    /\ steps' = steps + 1
    /\ \/ last'.name \in {"TidyUp", "Flatten", "Retain", "Override"}
       \/ last'.name = "Mix" /\ last'.report = NoReport
       \/ grid_spacing' # grid_spacing

\* C13: after a TidyUp pass with the three components of the grid spacing
\* non-zero no two touched objects are at the same location: two objects of
\* one generation differ in x or y, two objects of different generations
\* differ in z; the objects of the lowest touched generation are at z = 0,
\* and with spacing.z > 0 a higher generation index means a higher z.
C13_TidyUpSeparatesObjects ==
    [][ (TidyUpRan /\ \A c \in 1..3 : grid_spacing'[c] # 0) =>
          LET gen == generation_index'
              loc == location'
              touched == {o \in 1..Len(gen) : gen[o] >= 0}
          IN  \A o \in touched :
                /\ (\A p \in touched : gen[p] >= gen[o]) => loc[o][3] = 0
                /\ \A p \in touched \ {o} :
                      /\ loc[o] # loc[p]
                      /\ gen[o] = gen[p] => <<loc[o][1], loc[o][2]>> # <<loc[p][1], loc[p][2]>>
                      /\ gen[o] # gen[p] => loc[o][3] # loc[p][3]
                      /\ (grid_spacing'[3] > 0 /\ gen[o] < gen[p]) => loc[o][3] < loc[p][3]
      ]_vars

\* a Mix of three objects has just laid out, with a spacing that has a
\* negative component, a first generation of three objects over two rows and
\* a second generation above it
C13_Witness ==
    /\ Bred
    /\ \A c \in 1..3 : grid_spacing[c] # 0
    /\ \E c \in 1..3 : grid_spacing[c] < 0
    /\ Cardinality({o \in Range(objects) : generation_index[o] = 0}) >= 3
    /\ \E o \in Range(objects) : generation_index[o] = 1 /\ location[o][3] # 0
    /\ \E o \in Range(objects), p \in Range(objects) :
          /\ generation_index[o] = 0 /\ generation_index[p] = 0
          /\ location[o][2] # location[p][2]

====
